---- MODULE Spec2Model ----
(***************************************************************************)
(* WuerstchenLoRASetup: which prior sub-networks get LoRA adapters, how    *)
(* the adapters are wired, which device every module lives on and which    *)
(* train/eval mode it is in, and the epoch gate on the adapters' gradients.*)
(* The state is one WuerstchenModel, one TrainArgs and the setup object's  *)
(* two devices; every public method of the class is one action.            *)
(***************************************************************************)
EXTENDS Integers, Sequences, FiniteSets, TLC

\* ------------------------------------------------------------------ bounds
\* Largest epoch number and epoch limit drawn for a run.
MaxEpoch == 1
\* Largest learning rate drawn for a run (rates are small naturals here).
MaxLR == 1

Devices == {"cuda", "cpu"}
Epochs == 0..MaxEpoch
LearningRates == 0..MaxLR

\* Python's None for an optional number, and a present value.
None == <<>>
Some(v) == <<v>>
OptionalLR == {None} \cup {Some(v) : v \in LearningRates}

\* ------------------------------------------------------------------- state
VARIABLES
    model,    \* the WuerstchenModel handed to every method
    args,     \* the TrainArgs of the run
    self,     \* the setup object: train_device, temp_device
    lastOp,   \* the method called last
    raised    \* whether that call ended in an exception

vars == <<model, args, self, lastOp, raised>>

\* ------------------------------------------------- torch module operations
\* A base sub-network: its device, its train/eval mode, its parameters'
\* requires_grad.
Module(device, training) ==
    [device |-> device, training |-> training, requires_grad |-> TRUE]

To(module, device) == [module EXCEPT !.device = device]
Train(module) == [module EXCEPT !.training = TRUE]
Eval(module) == [module EXCEPT !.training = FALSE]
RequiresGrad(module, flag) == [module EXCEPT !.requires_grad = flag]

\* model.prior_text_encoder_lora / model.prior_prior_lora when it is None.
NoLora ==
    [exists |-> FALSE, device |-> "none", requires_grad |-> FALSE,
     hooked |-> FALSE, origin |-> "none", dtype |-> "none"]

\* An adapter that came with the loaded model.
LoadedLora(device) ==
    [exists |-> TRUE, device |-> device, requires_grad |-> TRUE,
     hooked |-> FALSE, origin |-> "loaded", dtype |-> "loaded"]

\* LoRAModuleWrapper(orig_module, rank, prefix, alpha): a fresh adapter, not
\* yet hooked; the device it is allocated on is the wrapper's business.
LoRAModuleWrapper(device) ==
    [exists |-> TRUE, device |-> device, requires_grad |-> TRUE,
     hooked |-> FALSE, origin |-> "created", dtype |-> "default"]

LoraRequiresGrad(lora, flag) == [lora EXCEPT !.requires_grad = flag]
HookToModule(lora) == [lora EXCEPT !.hooked = TRUE]
LoraToDtype(lora) == [lora EXCEPT !.dtype = "lora_weight_dtype"]
LoraTo(lora, device) == [lora EXCEPT !.device = device]

NotCreated == [created |-> FALSE, params |-> <<>>]

\* The model as the loader hands it over.
NewModel(device, training, te_lora, prior_lora, epoch) ==
    [prior_text_encoder |-> Module(device, training),
     prior_prior |-> Module(device, training),
     decoder_text_encoder |-> Module(device, training),
     decoder_decoder |-> Module(device, training),
     decoder_vqgan |-> Module(device, training),
     effnet_encoder |-> Module(device, training),
     prior_text_encoder_lora |-> te_lora,
     prior_prior_lora |-> prior_lora,
     train_progress |-> [epoch |-> epoch],
     optimizer |-> NotCreated,
     ema |-> NotCreated,
     has_optimizer_state_dict |-> TRUE,
     has_ema_state_dict |-> TRUE,
     trace |-> <<>>]

\* An adapter the loader found in the checkpoint sits where the loader put
\* the rest of the model.
LoadedLoras(device) == {NoLora, LoadedLora(device)}

TrainArgs ==
    [train_text_encoder : BOOLEAN,
     train_unet : BOOLEAN,
     train_text_encoder_epochs : Epochs,
     train_unet_epochs : Epochs,
     learning_rate : LearningRates,
     text_encoder_learning_rate : OptionalLR,
     unet_learning_rate : OptionalLR]

\* The train device is the accelerator; the temp device is any device, the
\* train device included.
TrainDevice == "cuda"

Init ==
    /\ self \in [train_device : {TrainDevice}, temp_device : Devices]
    /\ args \in TrainArgs
    /\ \E d \in Devices, e \in Epochs :
           \E te \in LoadedLoras(d), pp \in LoadedLoras(d) :
               model = NewModel(d, TRUE, te, pp, e)
    /\ lastOp = "__init__"
    /\ raised = FALSE

\* --------------------------------------------------------------- parameters
\* The value a method returns, or the exception it ends in.
Return(value) == [raised |-> FALSE, value |-> value]
Raise == [raised |-> TRUE, value |-> <<>>]

\* lora.parameters(): the parameters of one adapter, named by the model
\* attribute that holds it.  On None the attribute access raises.
TextEncoderLoraParameters == "prior_text_encoder_lora"
PriorLoraParameters == "prior_prior_lora"

\* Mutant of create_parameters: the denoising-network adapter listed first.
create_parameters_PriorFirst(m, a) ==
    LET te_missing == a.train_text_encoder /\ ~m.prior_text_encoder_lora.exists
        pp_missing == a.train_unet /\ ~m.prior_prior_lora.exists
        te == IF a.train_text_encoder THEN <<TextEncoderLoraParameters>> ELSE <<>>
        pp == IF a.train_unet THEN <<PriorLoraParameters>> ELSE <<>>
    IN  IF te_missing \/ pp_missing THEN Raise ELSE Return(pp \o te)


\* Lines 27-40, create_parameters: the flat parameter list handed to the EMA.
create_parameters(m, a) ==
    LET te_missing == a.train_text_encoder /\ ~m.prior_text_encoder_lora.exists
        pp_missing == a.train_unet /\ ~m.prior_prior_lora.exists
        te == IF a.train_text_encoder THEN <<TextEncoderLoraParameters>> ELSE <<>>
        pp == IF a.train_unet THEN <<PriorLoraParameters>> ELSE <<>>
    IN  IF te_missing \/ pp_missing THEN Raise ELSE Return(te \o pp)

\* Mutant of LrOrDefault: a truthiness test, so a rate of 0 falls back too.
LrOrDefault_Truthy(component_lr, learning_rate) ==
    IF component_lr # None /\ component_lr[1] # 0 THEN component_lr[1] ELSE learning_rate

\* lr = component rate if it is not None, else args.learning_rate.
LrOrDefault(component_lr, learning_rate) ==
    IF component_lr # None THEN component_lr[1] ELSE learning_rate

ParamGroup(params, lr) == [params |-> params, lr |-> lr, initial_lr |-> lr]

\* create_parameters_for_optimizer: one group per trained adapter.
create_parameters_for_optimizer(m, a) ==
    LET te_missing == a.train_text_encoder /\ ~m.prior_text_encoder_lora.exists
        pp_missing == a.train_unet /\ ~m.prior_prior_lora.exists
        te == IF a.train_text_encoder
              THEN <<ParamGroup(TextEncoderLoraParameters,
                                LrOrDefault(a.text_encoder_learning_rate, a.learning_rate))>>
              ELSE <<>>
        pp == IF a.train_unet
              THEN <<ParamGroup(PriorLoraParameters,
                                LrOrDefault(a.unet_learning_rate, a.learning_rate))>>
              ELSE <<>>
    IN  IF te_missing \/ pp_missing THEN Raise ELSE Return(te \o pp)

\* -------------------------------------------------------------- setup_model
Log(m, event) == [m EXCEPT !.trace = Append(@, event)]

\* Mutant of CreateLoras: the flag alone decides, an existing adapter is
\* overwritten.
CreateLoras_Overwrite(m, a, device) ==
    LET m1 == IF a.train_text_encoder
              THEN Log([m EXCEPT !.prior_text_encoder_lora = LoRAModuleWrapper(device)],
                       "create prior_text_encoder_lora")
              ELSE m
    IN  IF a.train_unet
        THEN Log([m1 EXCEPT !.prior_prior_lora = LoRAModuleWrapper(device)],
                 "create prior_prior_lora")
        ELSE m1

\* Lines 72-80: an adapter is built only where none exists and the flag is on.
CreateLoras(m, a, device) ==
    LET m1 == IF ~m.prior_text_encoder_lora.exists /\ a.train_text_encoder
              THEN Log([m EXCEPT !.prior_text_encoder_lora = LoRAModuleWrapper(device)],
                       "create prior_text_encoder_lora")
              ELSE m
    IN  IF ~m1.prior_prior_lora.exists /\ a.train_unet
        THEN Log([m1 EXCEPT !.prior_prior_lora = LoRAModuleWrapper(device)],
                 "create prior_prior_lora")
        ELSE m1

\* Mutant of FreezeBase: the feature encoder is forgotten.
FreezeBase_NoEffnet(m) ==
    Log([m EXCEPT !.prior_text_encoder = RequiresGrad(@, FALSE),
                  !.prior_prior = RequiresGrad(@, FALSE),
                  !.decoder_text_encoder = RequiresGrad(@, FALSE),
                  !.decoder_decoder = RequiresGrad(@, FALSE),
                  !.decoder_vqgan = RequiresGrad(@, FALSE)],
        "freeze base")

\* Lines 82-87: every base sub-network is frozen.
FreezeBase(m) ==
    Log([m EXCEPT !.prior_text_encoder = RequiresGrad(@, FALSE),
                  !.prior_prior = RequiresGrad(@, FALSE),
                  !.decoder_text_encoder = RequiresGrad(@, FALSE),
                  !.decoder_decoder = RequiresGrad(@, FALSE),
                  !.decoder_vqgan = RequiresGrad(@, FALSE),
                  !.effnet_encoder = RequiresGrad(@, FALSE)],
        "freeze base")

\* Mutant of SetLoraRequiresGrad: the flags alone, no epoch gate.
SetLoraRequiresGrad_NoEpochGate(m, a) ==
    LET m1 == IF m.prior_text_encoder_lora.exists
              THEN Log([m EXCEPT !.prior_text_encoder_lora =
                                     LoraRequiresGrad(@, a.train_text_encoder)],
                       "requires_grad prior_text_encoder_lora")
              ELSE m
    IN  IF m1.prior_prior_lora.exists
        THEN Log([m1 EXCEPT !.prior_prior_lora = LoraRequiresGrad(@, a.train_unet)],
                 "requires_grad prior_prior_lora")
        ELSE m1

\* Lines 89-95: the epoch gate on the adapters' gradients.
SetLoraRequiresGrad(m, a) ==
    LET train_text_encoder ==
            a.train_text_encoder /\ (m.train_progress.epoch < a.train_text_encoder_epochs)
        train_unet ==
            a.train_unet /\ (m.train_progress.epoch < a.train_unet_epochs)
        m1 == IF m.prior_text_encoder_lora.exists
              THEN Log([m EXCEPT !.prior_text_encoder_lora =
                                     LoraRequiresGrad(@, train_text_encoder)],
                       "requires_grad prior_text_encoder_lora")
              ELSE m
    IN  IF m1.prior_prior_lora.exists
        THEN Log([m1 EXCEPT !.prior_prior_lora = LoraRequiresGrad(@, train_unet)],
                 "requires_grad prior_prior_lora")
        ELSE m1

\* Mutant of HookLoras: only the adapters being trained are hooked.
HookLoras_TrainedOnly(m, a) ==
    LET m1 == IF m.prior_text_encoder_lora.exists /\ a.train_text_encoder
              THEN Log([m EXCEPT !.prior_text_encoder_lora = LoraToDtype(HookToModule(@))],
                       "hook prior_text_encoder_lora")
              ELSE m
    IN  IF m1.prior_prior_lora.exists /\ a.train_unet
        THEN Log([m1 EXCEPT !.prior_prior_lora = LoraToDtype(HookToModule(@))],
                 "hook prior_prior_lora")
        ELSE m1

\* Lines 97-102: every adapter the model holds is hooked and cast.
HookLoras(m, a) ==
    LET m1 == IF m.prior_text_encoder_lora.exists
              THEN Log([m EXCEPT !.prior_text_encoder_lora = LoraToDtype(HookToModule(@))],
                       "hook prior_text_encoder_lora")
              ELSE m
    IN  IF m1.prior_prior_lora.exists
        THEN Log([m1 EXCEPT !.prior_prior_lora = LoraToDtype(HookToModule(@))],
                 "hook prior_prior_lora")
        ELSE m1

\* The state a method leaves when a statement raises: what was done so far.
Raised(m) == [raised |-> TRUE, model |-> m]
Returned(m) == [raised |-> FALSE, model |-> m]

\* Lines 104-107: the optimizer over the parameter groups; the state dict is
\* read once and deleted, so a second call finds no attribute.
CreateOptimizer(m, a) ==
    LET groups == create_parameters_for_optimizer(m, a)
    IN  IF groups.raised \/ ~m.has_optimizer_state_dict
        THEN Raised(m)
        ELSE Returned(Log([m EXCEPT !.optimizer = [created |-> TRUE, params |-> groups.value],
                                    !.has_optimizer_state_dict = FALSE],
                          "create_optimizer"))

\* Lines 109-112: the EMA over the flat parameter list.
CreateEma(m, a) ==
    LET params == create_parameters(m, a)
    IN  IF params.raised \/ ~m.has_ema_state_dict
        THEN Raised(m)
        ELSE Returned(Log([m EXCEPT !.ema = [created |-> TRUE, params |-> params.value],
                                    !.has_ema_state_dict = FALSE],
                          "create_ema"))

\* Line 114: the base class's optimizations touch nothing tracked here.
SetupOptimizations(m, a) == Log(m, "setup_optimizations")

\* setup_model(model, args); device is where LoRAModuleWrapper allocates.
setup_model(m, a, device) ==
    LET m0 == [m EXCEPT !.trace = <<>>]
        m1 == CreateLoras(m0, a, device)
        m2 == FreezeBase(m1)
        m3 == SetLoraRequiresGrad(m2, a)
        m4 == HookLoras(m3, a)
        r5 == CreateOptimizer(m4, a)
        r6 == IF r5.raised THEN r5 ELSE CreateEma(r5.model, a)
    IN  IF r6.raised THEN r6 ELSE Returned(SetupOptimizations(r6.model, a))

\* Mutant of setup_eval_device: the adapters are left where they are.
setup_eval_device_NoLoras(m, s) ==
    LET m1 == [m EXCEPT !.decoder_text_encoder = To(@, s.train_device),
                        !.decoder_decoder = To(@, s.train_device),
                        !.decoder_vqgan = To(@, s.train_device),
                        !.effnet_encoder = To(@, s.train_device),
                        !.prior_text_encoder = To(@, s.train_device),
                        !.prior_prior = To(@, s.train_device)]
    IN  [m1 EXCEPT !.decoder_text_encoder = Eval(@),
                   !.decoder_decoder = Eval(@),
                   !.decoder_vqgan = Eval(@),
                   !.effnet_encoder = Eval(@),
                   !.prior_text_encoder = Eval(@),
                   !.prior_prior = Eval(@)]


\* -------------------------------------------------------- setup_eval_device
\* Lines 120-138: everything on the train device, every base module in eval.
setup_eval_device(m, s) ==
    LET m1 == [m EXCEPT !.decoder_text_encoder = To(@, s.train_device),
                        !.decoder_decoder = To(@, s.train_device),
                        !.decoder_vqgan = To(@, s.train_device),
                        !.effnet_encoder = To(@, s.train_device),
                        !.prior_text_encoder = To(@, s.train_device),
                        !.prior_prior = To(@, s.train_device)]
        m2 == IF m1.prior_text_encoder_lora.exists
              THEN [m1 EXCEPT !.prior_text_encoder_lora = LoraTo(@, s.train_device)]
              ELSE m1
        m3 == IF m2.prior_prior_lora.exists
              THEN [m2 EXCEPT !.prior_prior_lora = LoraTo(@, s.train_device)]
              ELSE m2
    IN  [m3 EXCEPT !.decoder_text_encoder = Eval(@),
                   !.decoder_decoder = Eval(@),
                   !.decoder_vqgan = Eval(@),
                   !.effnet_encoder = Eval(@),
                   !.prior_text_encoder = Eval(@),
                   !.prior_prior = Eval(@)]

\* The shape the mutants of setup_train_device share: its statements with
\* the two training decisions and the text encoder's device given.
TrainDevicePlacement(m, s, train_text_encoder, train_unet, te_device) ==
    LET m1 == [m EXCEPT !.decoder_text_encoder = To(@, s.temp_device),
                        !.decoder_decoder = To(@, s.temp_device),
                        !.decoder_vqgan = To(@, s.temp_device),
                        !.effnet_encoder = To(@, s.temp_device)]
        m2 == [m1 EXCEPT !.prior_text_encoder = To(@, te_device),
                         !.prior_prior = To(@, s.train_device)]
        m3 == IF m2.prior_text_encoder_lora.exists /\ train_text_encoder
              THEN [m2 EXCEPT !.prior_text_encoder_lora = LoraTo(@, s.train_device)]
              ELSE m2
        m4 == IF m3.prior_prior_lora.exists
              THEN [m3 EXCEPT !.prior_prior_lora = LoraTo(@, s.train_device)]
              ELSE m3
        m5 == [m4 EXCEPT !.prior_text_encoder =
                             IF train_text_encoder THEN Train(@) ELSE Eval(@)]
        m6 == [m5 EXCEPT !.decoder_text_encoder = Eval(@),
                         !.decoder_decoder = Eval(@),
                         !.decoder_vqgan = Eval(@),
                         !.effnet_encoder = Eval(@)]
    IN  [m6 EXCEPT !.prior_prior = IF train_unet THEN Train(@) ELSE Eval(@)]

\* Mutant of setup_train_device: the prior text encoder always goes to the
\* train device.
setup_train_device_TextEncoderOnTrain(m, a, s) ==
    TrainDevicePlacement(m, s, a.train_text_encoder, a.train_unet, s.train_device)

\* Mutant of setup_train_device: the training decisions are gated by the
\* epoch as they are in setup_model.
setup_train_device_EpochGated(m, a, s) ==
    LET train_text_encoder ==
            a.train_text_encoder /\ (m.train_progress.epoch < a.train_text_encoder_epochs)
        train_unet ==
            a.train_unet /\ (m.train_progress.epoch < a.train_unet_epochs)
    IN  TrainDevicePlacement(m, s, train_text_encoder, train_unet,
                             IF train_text_encoder THEN s.train_device ELSE s.temp_device)


\* ------------------------------------------------------- setup_train_device
\* Lines 145-172: the decoder stage and the feature encoder are parked on the
\* temp device; the prior stage is placed and put in train/eval by the flags.
setup_train_device(m, a, s) ==
    LET m1 == [m EXCEPT !.decoder_text_encoder = To(@, s.temp_device),
                        !.decoder_decoder = To(@, s.temp_device),
                        !.decoder_vqgan = To(@, s.temp_device),
                        !.effnet_encoder = To(@, s.temp_device)]
        m2 == [m1 EXCEPT !.prior_text_encoder =
                             To(@, IF a.train_text_encoder THEN s.train_device
                                                           ELSE s.temp_device),
                         !.prior_prior = To(@, s.train_device)]
        m3 == IF m2.prior_text_encoder_lora.exists /\ a.train_text_encoder
              THEN [m2 EXCEPT !.prior_text_encoder_lora = LoraTo(@, s.train_device)]
              ELSE m2
        m4 == IF m3.prior_prior_lora.exists
              THEN [m3 EXCEPT !.prior_prior_lora = LoraTo(@, s.train_device)]
              ELSE m3
        m5 == [m4 EXCEPT !.prior_text_encoder =
                             IF a.train_text_encoder THEN Train(@) ELSE Eval(@)]
        m6 == [m5 EXCEPT !.decoder_text_encoder = Eval(@),
                         !.decoder_decoder = Eval(@),
                         !.decoder_vqgan = Eval(@),
                         !.effnet_encoder = Eval(@)]
    IN  [m6 EXCEPT !.prior_prior = IF a.train_unet THEN Train(@) ELSE Eval(@)]

\* ------------------------------------------------------------------ actions
SetupModel ==
    \E device \in Devices :
        LET r == setup_model(model, args, device)
        IN  /\ model' = r.model
            /\ raised' = r.raised
            /\ lastOp' = "setup_model"
            /\ UNCHANGED <<args, self>>

SetupEvalDevice ==
    /\ model' = setup_eval_device(model, self)
    /\ raised' = FALSE
    /\ lastOp' = "setup_eval_device"
    /\ UNCHANGED <<args, self>>

SetupTrainDevice ==
    /\ model' = setup_train_device(model, args, self)
    /\ raised' = FALSE
    /\ lastOp' = "setup_train_device"
    /\ UNCHANGED <<args, self>>

\* Lines 174-180: a no-op.
AfterOptimizerStep ==
    /\ lastOp' = "after_optimizer_step"
    /\ raised' = FALSE
    /\ UNCHANGED <<model, args, self>>

Next ==
    \/ SetupModel
    \/ SetupEvalDevice
    \/ SetupTrainDevice
    \/ AfterOptimizerStep

Spec == Init /\ [][Next]_vars

\* ------------------------------------------------------------------- claims
Returned_setup_model == lastOp = "setup_model" /\ ~raised

BaseModules(m) ==
    {m.prior_text_encoder, m.prior_prior, m.decoder_text_encoder,
     m.decoder_decoder, m.decoder_vqgan, m.effnet_encoder}

Occurs(seq, e) == \E i \in 1..Len(seq) : seq[i] = e
\* e1 is in seq, and every e2 in seq comes after it.
Precedes(seq, e1, e2) ==
    \E i \in 1..Len(seq) :
        /\ seq[i] = e1
        /\ \A j \in 1..Len(seq) : seq[j] = e2 => i < j

\* C1: after setup_model returns, an existing text-encoder adapter has
\* requires_grad true iff train_text_encoder and epoch < train_text_encoder_epochs,
\* and an existing denoising-network adapter has requires_grad true iff
\* train_unet and epoch < train_unet_epochs.
C1_RequiresGradIsFlagAndEpochGate ==
    Returned_setup_model =>
        /\ model.prior_text_encoder_lora.exists =>
               (model.prior_text_encoder_lora.requires_grad
                    <=> (args.train_text_encoder
                         /\ model.train_progress.epoch < args.train_text_encoder_epochs))
        /\ model.prior_prior_lora.exists =>
               (model.prior_prior_lora.requires_grad
                    <=> (args.train_unet
                         /\ model.train_progress.epoch < args.train_unet_epochs))

\* C1 witness: setup_model returned with the text-encoder adapter gated off
\* by the epoch although its flag is on, and the other adapter trainable.
C1_Witness ==
    /\ Returned_setup_model
    /\ args.train_text_encoder
    /\ model.train_progress.epoch >= args.train_text_encoder_epochs
    /\ model.prior_text_encoder_lora.exists
    /\ ~model.prior_text_encoder_lora.requires_grad
    /\ model.prior_prior_lora.exists
    /\ model.prior_prior_lora.requires_grad

\* C2: a setup_model call builds an adapter exactly when it is absent and its
\* flag is true: an existing adapter is kept as it was, an absent one with a
\* false flag stays absent, and when the call builds the optimizer and the EMA
\* every flagged adapter exists and was built before them.
C2_AdapterCreatedIffAbsentAndFlagged ==
    [][lastOp' = "setup_model" =>
        /\ model'.prior_text_encoder_lora.exists
               <=> (model.prior_text_encoder_lora.exists \/ args.train_text_encoder)
        /\ model'.prior_prior_lora.exists
               <=> (model.prior_prior_lora.exists \/ args.train_unet)
        /\ model'.prior_text_encoder_lora.origin =
               (IF model.prior_text_encoder_lora.exists
                THEN model.prior_text_encoder_lora.origin
                ELSE IF args.train_text_encoder THEN "created" ELSE "none")
        /\ model'.prior_prior_lora.origin =
               (IF model.prior_prior_lora.exists
                THEN model.prior_prior_lora.origin
                ELSE IF args.train_unet THEN "created" ELSE "none")
        /\ Occurs(model'.trace, "create prior_text_encoder_lora")
               <=> (~model.prior_text_encoder_lora.exists /\ args.train_text_encoder)
        /\ Occurs(model'.trace, "create prior_prior_lora")
               <=> (~model.prior_prior_lora.exists /\ args.train_unet)
        /\ model.has_optimizer_state_dict =>
               /\ ~raised'
               /\ model'.optimizer.created /\ model'.ema.created
               /\ args.train_text_encoder => model'.prior_text_encoder_lora.exists
               /\ args.train_unet => model'.prior_prior_lora.exists
               /\ \A e \in {"create prior_text_encoder_lora", "create prior_prior_lora"} :
                      Occurs(model'.trace, e) =>
                          /\ Precedes(model'.trace, e, "create_optimizer")
                          /\ Precedes(model'.trace, e, "create_ema")
    ]_vars

\* C2 witness: setup_model returned having built the text-encoder adapter and
\* kept a loaded denoising-network adapter whose flag is off.
C2_Witness ==
    /\ Returned_setup_model
    /\ model.prior_text_encoder_lora.origin = "created"
    /\ model.prior_prior_lora.origin = "loaded"
    /\ ~args.train_unet
    /\ model.optimizer.created

\* C3: after setup_model returns, all six base components have requires_grad
\* false, whatever the flags and the epoch.
C3_BaseModulesFrozen ==
    Returned_setup_model =>
        \A module \in BaseModules(model) : ~module.requires_grad

\* C3 witness: setup_model returned with both adapters trainable.
C3_Witness ==
    /\ Returned_setup_model
    /\ model.prior_text_encoder_lora.requires_grad
    /\ model.prior_prior_lora.requires_grad
    /\ ~model.effnet_encoder.requires_grad

\* C4: after setup_train_device, the decoder text encoder, the decoder, the
\* VQGAN and the feature encoder are on the temp device, prior_prior is on the
\* train device, and prior_text_encoder is on the train device if
\* train_text_encoder and on the temp device otherwise.
C4_TrainDevicePlacement ==
    lastOp = "setup_train_device" =>
        /\ model.decoder_text_encoder.device = self.temp_device
        /\ model.decoder_decoder.device = self.temp_device
        /\ model.decoder_vqgan.device = self.temp_device
        /\ model.effnet_encoder.device = self.temp_device
        /\ model.prior_prior.device = self.train_device
        /\ model.prior_text_encoder.device =
               (IF args.train_text_encoder THEN self.train_device ELSE self.temp_device)

\* C4 witness: setup_train_device ran with two different devices and the
\* text encoder not trained, so it is parked away from prior_prior.
C4_Witness ==
    /\ lastOp = "setup_train_device"
    /\ self.temp_device # self.train_device
    /\ ~args.train_text_encoder
    /\ model.prior_text_encoder.device = self.temp_device
    /\ model.prior_prior.device = self.train_device

\* C5 as stated: after setup_train_device, once epoch >= train_text_encoder_epochs
\* the prior text encoder is in eval mode on the temp device, and once
\* epoch >= train_unet_epochs prior_prior is in eval mode, even with the flag on.
C5_Original_EpochGatesTrainDevice ==
    lastOp = "setup_train_device" =>
        /\ model.train_progress.epoch >= args.train_text_encoder_epochs =>
               /\ ~model.prior_text_encoder.training
               /\ model.prior_text_encoder.device = self.temp_device
        /\ model.train_progress.epoch >= args.train_unet_epochs =>
               ~model.prior_prior.training

\* C5 amended: the device and mode setup_train_device gives the prior
\* sub-networks depend on the flags alone, at every epoch: prior_text_encoder
\* is in train mode on the train device iff train_text_encoder (else eval, temp
\* device) and prior_prior is in train mode iff train_unet.
C5_FlagsAloneDecideTrainDevice ==
    lastOp = "setup_train_device" =>
        /\ model.prior_text_encoder.training <=> args.train_text_encoder
        /\ model.prior_text_encoder.device =
               (IF args.train_text_encoder THEN self.train_device ELSE self.temp_device)
        /\ model.prior_prior.training <=> args.train_unet

\* C5 witness: setup_train_device ran past both epoch limits with both flags
\* on, and both prior sub-networks are in train mode on the train device.
C5_Witness ==
    /\ lastOp = "setup_train_device"
    /\ self.temp_device # self.train_device
    /\ args.train_text_encoder /\ args.train_unet
    /\ model.train_progress.epoch >= args.train_text_encoder_epochs
    /\ model.train_progress.epoch >= args.train_unet_epochs
    /\ model.prior_text_encoder.training
    /\ model.prior_text_encoder.device = self.train_device
    /\ model.prior_prior.training

\* C6: after setup_model returns, every adapter the model holds is hooked
\* into its base module, a loaded adapter with its flag off included, and each
\* hook came after that adapter's requires_grad call and before the optimizer
\* and the EMA were created.
C6_EveryAdapterHookedInOrder ==
    Returned_setup_model =>
        /\ model.prior_text_encoder_lora.exists =>
               /\ model.prior_text_encoder_lora.hooked
               /\ Precedes(model.trace, "requires_grad prior_text_encoder_lora",
                           "hook prior_text_encoder_lora")
               /\ Precedes(model.trace, "hook prior_text_encoder_lora", "create_optimizer")
               /\ Precedes(model.trace, "hook prior_text_encoder_lora", "create_ema")
        /\ model.prior_prior_lora.exists =>
               /\ model.prior_prior_lora.hooked
               /\ Precedes(model.trace, "requires_grad prior_prior_lora",
                           "hook prior_prior_lora")
               /\ Precedes(model.trace, "hook prior_prior_lora", "create_optimizer")
               /\ Precedes(model.trace, "hook prior_prior_lora", "create_ema")
        /\ Occurs(model.trace, "create_optimizer") /\ Occurs(model.trace, "create_ema")

\* C6 witness: setup_model returned with a loaded, untrained text-encoder
\* adapter hooked.
C6_Witness ==
    /\ Returned_setup_model
    /\ ~args.train_text_encoder
    /\ model.prior_text_encoder_lora.origin = "loaded"
    /\ model.prior_text_encoder_lora.hooked

\* C7: a setup_eval_device call leaves all six base components and every
\* existing adapter on the train device and all six base components in eval
\* mode, and it creates or removes no adapter and changes no requires_grad.
C7_EvalDevicePlacementAndFrame ==
    [][lastOp' = "setup_eval_device" =>
        /\ \A module \in BaseModules(model') :
               module.device = self.train_device /\ ~module.training
        /\ model'.prior_text_encoder_lora.exists =>
               model'.prior_text_encoder_lora.device = self.train_device
        /\ model'.prior_prior_lora.exists =>
               model'.prior_prior_lora.device = self.train_device
        /\ model'.prior_text_encoder_lora.exists = model.prior_text_encoder_lora.exists
        /\ model'.prior_prior_lora.exists = model.prior_prior_lora.exists
        /\ model'.prior_text_encoder_lora.origin = model.prior_text_encoder_lora.origin
        /\ model'.prior_prior_lora.origin = model.prior_prior_lora.origin
        /\ model'.prior_text_encoder_lora.requires_grad
               = model.prior_text_encoder_lora.requires_grad
        /\ model'.prior_prior_lora.requires_grad = model.prior_prior_lora.requires_grad
        /\ model'.prior_text_encoder.requires_grad = model.prior_text_encoder.requires_grad
        /\ model'.prior_prior.requires_grad = model.prior_prior.requires_grad
        /\ model'.decoder_text_encoder.requires_grad = model.decoder_text_encoder.requires_grad
        /\ model'.decoder_decoder.requires_grad = model.decoder_decoder.requires_grad
        /\ model'.decoder_vqgan.requires_grad = model.decoder_vqgan.requires_grad
        /\ model'.effnet_encoder.requires_grad = model.effnet_encoder.requires_grad
    ]_vars

\* C7 witness: setup_eval_device ran on a model that holds one adapter with
\* requires_grad on and one with it off, with frozen base modules.
C7_Witness ==
    /\ lastOp = "setup_eval_device"
    /\ self.temp_device # self.train_device
    /\ model.prior_text_encoder_lora.exists
    /\ model.prior_text_encoder_lora.device = self.train_device
    /\ model.prior_text_encoder_lora.requires_grad
    /\ model.prior_prior_lora.exists
    /\ ~model.prior_prior_lora.requires_grad
    /\ ~model.prior_prior.requires_grad
    /\ ~model.prior_prior.training

\* C8: the groups create_parameters_for_optimizer returns to setup_model are
\* one per true flag, the text-encoder group first; a group's lr is the
\* component rate when that is not None and learning_rate otherwise, and its
\* initial_lr equals its lr.
C8_ParamGroupsPerFlagWithLr ==
    Returned_setup_model =>
        LET groups == model.optimizer.params
            n_te == IF args.train_text_encoder THEN 1 ELSE 0
            n_unet == IF args.train_unet THEN 1 ELSE 0
            te_lr == IF args.text_encoder_learning_rate = None
                     THEN args.learning_rate
                     ELSE args.text_encoder_learning_rate[1]
            unet_lr == IF args.unet_learning_rate = None
                       THEN args.learning_rate
                       ELSE args.unet_learning_rate[1]
        IN  /\ Len(groups) = n_te + n_unet
            /\ args.train_text_encoder =>
                   /\ groups[1].params = "prior_text_encoder_lora"
                   /\ groups[1].lr = te_lr
            /\ args.train_unet =>
                   /\ groups[n_te + 1].params = "prior_prior_lora"
                   /\ groups[n_te + 1].lr = unet_lr
            /\ \A i \in 1..Len(groups) : groups[i].initial_lr = groups[i].lr

\* C8 witness: two groups, the first with a component rate of 0 kept although
\* learning_rate differs, the second falling back to learning_rate.
C8_Witness ==
    /\ Returned_setup_model
    /\ Len(model.optimizer.params) = 2
    /\ args.text_encoder_learning_rate = Some(0)
    /\ args.unet_learning_rate = None
    /\ args.learning_rate # 0
    /\ model.optimizer.params[1].lr = 0
    /\ model.optimizer.params[2].lr = args.learning_rate

\* C9 as stated: once setup_model has returned, after a setup_eval_device or
\* setup_train_device call every existing adapter is on the device of the
\* base module it is hooked into.
C9_AdapterOnDeviceOfItsBase ==
    (model.optimizer.created /\ lastOp \in {"setup_eval_device", "setup_train_device"}) =>
        /\ model.prior_text_encoder_lora.exists =>
               model.prior_text_encoder_lora.device = model.prior_text_encoder.device
        /\ model.prior_prior_lora.exists =>
               model.prior_prior_lora.device = model.prior_prior.device

\* C10: after setup_model returns, the EMA tracks exactly the adapters of the
\* optimizer groups, in the same order; every adapter with requires_grad true
\* is in both, and so is an adapter whose flag is on but whose epochs have
\* elapsed, with requires_grad false.
C10_EmaAndOptimizerSelectSameAdapters ==
    Returned_setup_model =>
        LET groups == model.optimizer.params
            ema == model.ema.params
            InBoth(p) == (\E i \in 1..Len(groups) : groups[i].params = p) /\ Occurs(ema, p)
        IN  /\ Len(ema) = Len(groups)
            /\ \A i \in 1..Len(groups) : ema[i] = groups[i].params
            /\ (model.prior_text_encoder_lora.exists
                    /\ model.prior_text_encoder_lora.requires_grad)
                   => InBoth("prior_text_encoder_lora")
            /\ (model.prior_prior_lora.exists /\ model.prior_prior_lora.requires_grad)
                   => InBoth("prior_prior_lora")
            /\ (args.train_text_encoder
                    /\ model.train_progress.epoch >= args.train_text_encoder_epochs)
                   => (InBoth("prior_text_encoder_lora")
                       /\ ~model.prior_text_encoder_lora.requires_grad)
            /\ (args.train_unet /\ model.train_progress.epoch >= args.train_unet_epochs)
                   => (InBoth("prior_prior_lora") /\ ~model.prior_prior_lora.requires_grad)

\* C10 witness: both flags on, the text-encoder epochs elapsed and the
\* denoising-network epochs not: both adapters in the EMA and the optimizer.
C10_Witness ==
    /\ Returned_setup_model
    /\ args.train_text_encoder /\ args.train_unet
    /\ model.train_progress.epoch >= args.train_text_encoder_epochs
    /\ model.train_progress.epoch < args.train_unet_epochs
    /\ model.ema.params = <<"prior_text_encoder_lora", "prior_prior_lora">>
    /\ Len(model.optimizer.params) = 2
    /\ ~model.prior_text_encoder_lora.requires_grad
    /\ model.prior_prior_lora.requires_grad
====
